---------------------------- MODULE Spec2Model ----------------------------
(***************************************************************************)
(* The OpenShift init plugin of operator-sdk (internal/plugins/openshift/  *)
(* v1/init.go): Scaffold rewrites image and version references in three    *)
(* scaffolded files by regular-expression substitution (replaceImages over *)
(* the imageSubstitutions table) and then records the plugin in the        *)
(* project configuration (EncodePluginConfig).                             *)
(*                                                                         *)
(* File contents are byte strings, modelled as sequences of one-character  *)
(* strings, so that the regular expressions are matched byte by byte as    *)
(* regexp.ReplaceAll matches them.                                         *)
(***************************************************************************)
EXTENDS Integers, Sequences, FiniteSets, TLC

(***************************************************************************)
(* Bounds of the model.                                                    *)
(***************************************************************************)
\* Scaffold invocations on one project (the first run and re-runs).
MaxRuns == 2
\* Chunks of vocabulary concatenated into one input text of SpecSubst.
MaxChunks == 3

(***************************************************************************)
(* Constants of init.go, lines 28-33.                                      *)
(***************************************************************************)

ocpProductVersion ==
    <<"4",".","1","4">>

ubiMinimalVersion ==
    <<"8",".","8">>

(***************************************************************************)
(* The literal part of each pattern of imageSubstitutions and the fixed    *)
(* part of each replacement, lines 64-123.  A "." of a pattern is the      *)
(* regular expression's any-byte-but-newline, see AtomMatches.             *)
(***************************************************************************)

KubeRbacProxyPat ==
    <<"g","c","r",".","i","o","/","k","u","b","e","b","u","i","l","d","e","r",
      "/","k","u","b","e","-","r","b","a","c","-","p","r","o","x","y",":">>

KubeRbacProxyTo ==
    <<"r","e","g","i","s","t","r","y",".","r","e","d","h","a","t",".","i","o",
      "/","o","p","e","n","s","h","i","f","t","4","/","o","s","e","-","k","u",
      "b","e","-","r","b","a","c","-","p","r","o","x","y",":","v">>

AnsiblePat ==
    <<"q","u","a","y",".","i","o","/","o","p","e","r","a","t","o","r","-","f",
      "r","a","m","e","w","o","r","k","/","a","n","s","i","b","l","e","-","o",
      "p","e","r","a","t","o","r",":">>

AnsibleTo ==
    <<"r","e","g","i","s","t","r","y",".","r","e","d","h","a","t",".","i","o",
      "/","o","p","e","n","s","h","i","f","t","4","/","o","s","e","-","a","n",
      "s","i","b","l","e","-","o","p","e","r","a","t","o","r",":","v">>

HelmPat ==
    <<"q","u","a","y",".","i","o","/","o","p","e","r","a","t","o","r","-","f",
      "r","a","m","e","w","o","r","k","/","h","e","l","m","-","o","p","e","r",
      "a","t","o","r",":">>

HelmTo ==
    <<"r","e","g","i","s","t","r","y",".","r","e","d","h","a","t",".","i","o",
      "/","o","p","e","n","s","h","i","f","t","4","/","o","s","e","-","h","e",
      "l","m","-","o","p","e","r","a","t","o","r",":","v">>

DistrolessPat ==
    <<"g","c","r",".","i","o","/","d","i","s","t","r","o","l","e","s","s","/",
      "s","t","a","t","i","c",":">>

DistrolessTo ==
    <<"r","e","g","i","s","t","r","y",".","a","c","c","e","s","s",".","r","e",
      "d","h","a","t",".","c","o","m","/","u","b","i","8","/","u","b","i","-",
      "m","i","n","i","m","a","l",":">>

GolangPat ==
    <<"g","o","l","a","n","g",":">>

GolangTo ==
    <<"g","o","l","a","n","g",":","1",".","2","0">>

UbiMicroPat ==
    <<"r","e","g","i","s","t","r","y",".","a","c","c","e","s","s",".","r","e",
      "d","h","a","t",".","c","o","m","/","u","b","i","8","/","u","b","i","-",
      "m","i","c","r","o",":">>

UbiMicroTo ==
    <<"r","e","g","i","s","t","r","y",".","a","c","c","e","s","s",".","r","e",
      "d","h","a","t",".","c","o","m","/","u","b","i","8","/","u","b","i","-",
      "m","i","c","r","o",":">>

XNetPat ==
    <<"g","o","l","a","n","g",".","o","r","g","/","x","/","n","e","t"," ">>

\* Mutant of XNetTo: the replacement carries go.mod's "// indirect" comment,
\* which the pattern does not consume again.
XNetToIndirect ==
    <<"g","o","l","a","n","g",".","o","r","g","/","x","/","n","e","t"," ","v",
      "0",".","1","7",".","0"," ","/","/"," ","i","n","d","i","r","e","c","t">>

XNetTo ==
    <<"g","o","l","a","n","g",".","o","r","g","/","x","/","n","e","t"," ","v",
      "0",".","1","7",".","0">>

GoVersionPat ==
    <<"g","o"," ","1",".">>

GoVersionTo ==
    <<"g","o"," ","1",".","2","0">>
(***************************************************************************)
(* Input vocabulary: pieces of scaffolded files.  Inputs are concatenations*)
(* of these pieces.                                                        *)
(***************************************************************************)

TxtImageKey ==
    <<"i","m","a","g","e",":"," ">>

TxtQuote ==
    <<"\"">>

TxtNewline ==
    <<"\n">>

TxtProxyRef ==
    <<"g","c","r",".","i","o","/","k","u","b","e","b","u","i","l","d","e","r",
      "/","k","u","b","e","-","r","b","a","c","-","p","r","o","x","y",":","v",
      "0",".","1","3",".","1">>

TxtFrom ==
    <<"F","R","O","M"," ">>

TxtAsBuilder ==
    <<" ","a","s"," ","b","u","i","l","d","e","r">>

TxtGolang119 ==
    <<"g","o","l","a","n","g",":","1",".","1","9">>

TxtGolang121 ==
    <<"g","o","l","a","n","g",":","1",".","2","1">>

TxtAnsibleRef ==
    <<"q","u","a","y",".","i","o","/","o","p","e","r","a","t","o","r","-","f",
      "r","a","m","e","w","o","r","k","/","a","n","s","i","b","l","e","-","o",
      "p","e","r","a","t","o","r",":","v","1",".","3","1",".","0">>

TxtHelmRef ==
    <<"q","u","a","y",".","i","o","/","o","p","e","r","a","t","o","r","-","f",
      "r","a","m","e","w","o","r","k","/","h","e","l","m","-","o","p","e","r",
      "a","t","o","r",":","v","1",".","3","1",".","0">>

TxtDistrolessRef ==
    <<"g","c","r",".","i","o","/","d","i","s","t","r","o","l","e","s","s","/",
      "s","t","a","t","i","c",":","n","o","n","r","o","o","t">>

TxtUbiMicroRef ==
    <<"r","e","g","i","s","t","r","y",".","a","c","c","e","s","s",".","r","e",
      "d","h","a","t",".","c","o","m","/","u","b","i","8","/","u","b","i","-",
      "m","i","c","r","o",":","8",".","7">>

TxtGo119 ==
    <<"g","o"," ","1",".","1","9">>

TxtGo112 ==
    <<"g","o"," ","1",".","1","2">>

TxtGo12 ==
    <<"g","o"," ","1",".","2">>

TxtGo120 ==
    <<"g","o"," ","1",".","2","0">>

TxtGo121 ==
    <<"g","o"," ","1",".","2","1">>

TxtGo130 ==
    <<"g","o"," ","1",".","3","0">>

TxtPatch ==
    <<".","2">>

TxtRequire ==
    <<"r","e","q","u","i","r","e"," ">>

TxtXNet010 ==
    <<"g","o","l","a","n","g",".","o","r","g","/","x","/","n","e","t"," ","v",
      "0",".","1","0",".","0">>

TxtXNet023 ==
    <<"g","o","l","a","n","g",".","o","r","g","/","x","/","n","e","t"," ","v",
      "0",".","2","3",".","0">>

TxtIndirect ==
    <<" ","/","/"," ","i","n","d","i","r","e","c","t">>
(***************************************************************************)
(* type substitution, lines 58-61: a compiled pattern and a replacement.   *)
(* Every pattern of the table has the shape  literal [^...]+ ; it is kept  *)
(* as its literal part and the bytes its class excludes.                   *)
(***************************************************************************)
substitution(lit, notIn, to) ==
    [fromTagRE |-> [lit |-> lit, notIn |-> notIn], toTag |-> to]

\* The class [^ \n] of lines 67-110 and the class [^2\n] of line 119.
NotSpaceNewline == {" ", "\n"}
NotTwoNewline == {"2", "\n"}

\* The keys of imageSubstitutions, lines 65, 71 and 103 (filepath.Join).
ManifestPath == "config/default/manager_auth_proxy_patch.yaml"
DockerfilePath == "Dockerfile"
GoModPath == "go.mod"

\* imageSubstitutions, lines 64-123: path -> ordered list of substitutions.
imageSubstitutions ==
    (ManifestPath :> <<
        substitution(KubeRbacProxyPat, NotSpaceNewline,
                     KubeRbacProxyTo \o ocpProductVersion) >>)
    @@ (DockerfilePath :> <<
        substitution(AnsiblePat, NotSpaceNewline,
                     AnsibleTo \o ocpProductVersion),
        substitution(HelmPat, NotSpaceNewline, HelmTo \o ocpProductVersion),
        substitution(DistrolessPat, NotSpaceNewline,
                     DistrolessTo \o ubiMinimalVersion),
        substitution(GolangPat, NotSpaceNewline, GolangTo),
        substitution(UbiMicroPat, NotSpaceNewline,
                     UbiMicroTo \o ubiMinimalVersion) >>)
    @@ (GoModPath :> <<
        substitution(XNetPat, NotSpaceNewline, XNetTo),
        substitution(GoVersionPat, NotTwoNewline, GoVersionTo) >>)

TablePaths == DOMAIN imageSubstitutions

(***************************************************************************)
(* regexp.Regexp.ReplaceAll, line 138, for patterns  literal [^...]+ :     *)
(* leftmost match first, the class run taken greedily, matches not         *)
(* overlapping, the text between matches copied.                           *)
(***************************************************************************)
\* One atom of the literal part against one byte.
AtomMatches(a, c) == IF a = "." THEN c # "\n" ELSE a = c

\* The literal part of re matches s at i and at least one class byte follows.
MatchesAt(re, s, i) ==
    /\ i + Len(re.lit) <= Len(s)
    /\ \A k \in 1..Len(re.lit) : AtomMatches(re.lit[k], s[i + k - 1])
    /\ s[i + Len(re.lit)] \notin re.notIn

\* The least element of a non-empty set of positions.
Least(S) == CHOOSE k \in S : \A j \in S : k <= j

\* The last byte of the greedy class run whose first byte is at j: the run
\* ends before the first excluded byte, or with the text.
RunEnd(re, s, j) ==
    Least({ e \in j..Len(s) : e = Len(s) \/ s[e + 1] \in re.notIn })

MatchEnd(re, s, i) == RunEnd(re, s, i + Len(re.lit))

\* The start of the leftmost match at or after i, 0 when there is none.
NextMatch(re, s, i) ==
    LET starts == { k \in i..Len(s) : MatchesAt(re, s, k) }
    IN  IF starts = {} THEN 0 ELSE Least(starts)

\* The text from i on with every match replaced, scanning left to right.
RECURSIVE ReplaceFrom(_, _, _, _)
ReplaceFrom(re, s, repl, i) ==
    LET m == NextMatch(re, s, i)
    IN  IF m = 0 THEN SubSeq(s, i, Len(s))
        ELSE SubSeq(s, i, m - 1) \o repl
             \o ReplaceFrom(re, s, repl, MatchEnd(re, s, m) + 1)

\* Mutant of ReplaceAll: only the leftmost match is replaced.
ReplaceFirst(re, s, repl) ==
    LET m == NextMatch(re, s, 1)
    IN  IF m = 0 THEN s
        ELSE SubSeq(s, 1, m - 1) \o repl
             \o SubSeq(s, MatchEnd(re, s, m) + 1, Len(s))

ReplaceAll(re, s, repl) == ReplaceFrom(re, s, repl, 1)

\* Whether re matches anywhere in s.
Matches(re, s) == \E i \in 1..Len(s) : MatchesAt(re, s, i)

\* The inner loop of replaceImages, lines 137-139, from rule i on.
RECURSIVE ApplyFrom(_, _, _)
ApplyFrom(substs, b, i) ==
    IF i > Len(substs) THEN b
    ELSE ApplyFrom(substs,
                   ReplaceAll(substs[i].fromTagRE, b, substs[i].toTag), i + 1)

(***************************************************************************)
(* Sample projects: the files `operator-sdk init` scaffolds before this    *)
(* plugin runs (Go, Ansible and Helm projects).                            *)
(***************************************************************************)
ManifestFile == TxtImageKey \o TxtProxyRef \o TxtNewline
DockerfileGo119 ==
    TxtFrom \o TxtGolang119 \o TxtAsBuilder \o TxtNewline
    \o TxtFrom \o TxtDistrolessRef \o TxtNewline
DockerfileGo121 ==
    TxtFrom \o TxtGolang121 \o TxtAsBuilder \o TxtNewline
    \o TxtFrom \o TxtDistrolessRef \o TxtNewline
DockerfileAnsible == TxtFrom \o TxtAnsibleRef \o TxtNewline
GoMod119 == TxtGo119 \o TxtNewline \o TxtRequire \o TxtXNet010 \o TxtNewline
GoMod121 == TxtGo121 \o TxtNewline \o TxtRequire \o TxtXNet023 \o TxtNewline

\* A file of the project that is no key of the table; it holds text the
\* patterns of the table would match.
ProjectFile == TxtGolang119 \o TxtNewline \o TxtGo119 \o TxtNewline

OtherPath == "PROJECT"

SampleFiles ==
    (ManifestPath :> {ManifestFile})
    @@ (DockerfilePath :> {DockerfileGo119, DockerfileGo121, DockerfileAnsible})
    @@ (GoModPath :> {GoMod119, GoMod121})
    @@ (OtherPath :> {ProjectFile})

Paths == TablePaths \cup {OtherPath}
Modes == {"0644", "0600"}

(***************************************************************************)
(* The filesystem behind machinery.Filesystem (afero): per path, whether   *)
(* the file exists, its bytes and its mode bits.                           *)
(***************************************************************************)
Absent == [exists |-> FALSE, data |-> << >>, mode |-> "-"]
File(data, mode) == [exists |-> TRUE, data |-> data, mode |-> mode]

\* Mutant of FsWriteFile: the bytes are written to a new file that replaces
\* the old one, which loses the old file's mode.
FsWriteFileViaTemp(f, path, data, perm) ==
    [f EXCEPT ![path] = File(data, "0644")]

\* afero.WriteFile(fs, path, data, perm), line 140: open with
\* O_WRONLY|O_CREATE|O_TRUNC and perm, write, close.  perm is used only when
\* the open creates the file; an existing file keeps its mode.
FsWriteFile(f, path, data, perm) ==
    [f EXCEPT ![path] =
        File(data, IF f[path].exists THEN f[path].mode ELSE perm)]

\* A failed afero.WriteFile: the open failed (nothing changed) or the write
\* after the truncating open failed (the file is left empty).
FsWriteFileFailed(f, path, truncated) ==
    IF truncated /\ f[path].exists
    THEN [f EXCEPT ![path].data = << >>]
    ELSE f

(***************************************************************************)
(* Errors: the context fmt.Errorf puts in front (wrap), the plugin key it  *)
(* names (key) and the underlying error it prints with %v (cause).         *)
(***************************************************************************)
NoCause == [kind |-> "nil", op |-> "", path |-> ""]
Nil == [wrap |-> "", key |-> "", cause |-> NoCause]
\* The *os.PathError afero returns: its message names the operation and path.
PathError(op, path) == [kind |-> "PathError", op |-> op, path |-> path]
Errorf(wrap, key, cause) == [wrap |-> wrap, key |-> key, cause |-> cause]

\* The key under which this plugin's configuration is stored, lines 51-52.
pluginKey == "openshift.sdk.operatorframework.io/v1"

(***************************************************************************)
(* config.Config.EncodePluginConfig: a configuration version with a        *)
(* plugins section stores the entry under its key (a map: one entry per    *)
(* key); a version without one returns UnsupportedFieldError; encoding may *)
(* fail otherwise.                                                         *)
(***************************************************************************)
CfgKinds == {"supported", "unsupported", "failing"}
UnsupportedFieldError ==
    [kind |-> "UnsupportedFieldError", op |-> "", path |-> ""]
EncodeError == [kind |-> "EncodeError", op |-> "", path |-> ""]

HasKey(entries, key) == \E i \in 1..Len(entries) : entries[i] = key
EncodePluginConfigErr(kind) ==
    CASE kind = "supported" -> NoCause
      [] kind = "unsupported" -> UnsupportedFieldError
      [] OTHER -> EncodeError
EncodePluginConfigStore(kind, entries, key) ==
    IF kind = "supported" /\ ~HasKey(entries, key)
    THEN Append(entries, key)
    ELSE entries

\* Mutant of ScaffoldEncodeResult: the unsupported-field error is not
\* tolerated.
ScaffoldEncodeResultStrict(e) ==
    IF e # NoCause
    THEN Errorf("error writing plugin config for", pluginKey, e)
    ELSE Nil

\* Scaffold, lines 51-55: what it returns for EncodePluginConfig's error.
\* errors.As(err, &config.UnsupportedFieldError{}) is the test on the kind.
ScaffoldEncodeResult(e) ==
    IF e # NoCause /\ ~(e.kind = "UnsupportedFieldError")
    THEN Errorf("error writing plugin config for", pluginKey, e)
    ELSE Nil

VARIABLES
    fs,        \* the filesystem: path -> [exists, data, mode]
    cfgKind,   \* the behaviour of the injected config.Config
    plugins,   \* the keys of the configuration's plugins section
    pc,        \* Scaffold: Substituting, RecordingMarker, Done, Failed
    phase,     \* replaceImages: range, stat, subst
    pending,   \* keys of the table the range loop has not yet yielded
    cur,       \* filePath of the current iteration
    buf,       \* b
    info,      \* info.Mode()
    idx,       \* position of the inner loop in substitutions
    err,       \* the error Scaffold returned (Nil: none)
    run,       \* number of the Scaffold invocation
    fs0,       \* history: the filesystem when this invocation started
    plugins0,  \* history: the plugins section when this invocation started
    events,    \* history: the calls this invocation made, in order
    input,     \* history (SpecSubst): the bytes first read
    pass,      \* history (SpecSubst): how many times the rules ran over buf
    first      \* history (SpecSubst): buf after the first pass

vars == << fs, cfgKind, plugins, pc, phase, pending, cur, buf, info, idx, err,
           run, fs0, plugins0, events, input, pass, first >>

histSubst == << input, pass, first >>

Init ==
    /\ \E m \in Modes :
        fs \in { f \in [Paths -> {Absent} \cup
                            { File(d, m) :
                                d \in UNION { SampleFiles[p] : p \in Paths } }] :
                  /\ \A p \in Paths :
                        f[p].exists => f[p].data \in SampleFiles[p]
                  /\ f[OtherPath].exists }
    /\ cfgKind \in CfgKinds
    /\ plugins = << >>
    /\ pc = "Substituting"
    /\ phase = "range"
    /\ pending = TablePaths
    /\ cur = ""
    /\ buf = << >>
    /\ info = "-"
    /\ idx = 1
    /\ err = Nil
    /\ run = 1
    /\ fs0 = fs
    /\ plugins0 = plugins
    /\ events = << >>
    /\ input = << >>
    /\ pass = 0
    /\ first = << >>

(***************************************************************************)
(* Mutants of the steps below.                                             *)
(***************************************************************************)
\* Mutant of ReadFileFails: the loop goes on to the next file (continue)
\* instead of returning the error.
ReadFileSkips ==
    /\ pc = "Substituting" /\ phase = "range"
    /\ \E p \in pending :
        /\ cur' = p
        /\ pending' = pending \ {p}
        /\ events' = Append(events, << "read", p >>)
    /\ UNCHANGED << fs, cfgKind, plugins, pc, phase, buf, info, idx, err, run,
                    fs0, plugins0, input, pass, first >>

\* Mutant of ReplaceImagesReturns: the return nil of line 145 sits inside the
\* range loop, so replaceImages returns after the first file.
ReplaceImagesReturnsEarly ==
    /\ pc = "Substituting" /\ phase = "range" /\ pending # TablePaths
    /\ pc' = "RecordingMarker"
    /\ UNCHANGED << fs, cfgKind, plugins, phase, pending, cur, buf, info, idx,
                    err, run, fs0, plugins0, events, input, pass, first >>

\* Mutant of EncodePluginConfig: Scaffold returns success without asking the
\* configuration to store the plugin's entry.
SkipPluginConfig ==
    /\ pc = "RecordingMarker"
    /\ pc' = "Done"
    /\ err' = Nil
    /\ UNCHANGED << fs, cfgKind, plugins, phase, pending, cur, buf, info, idx,
                    run, fs0, plugins0, events, input, pass, first >>

(***************************************************************************)
(* replaceImages, lines 126-146.                                           *)
(***************************************************************************)
\* Line 128-129: the range loop yields a key not yet visited (in no fixed
\* order) and afero.ReadFile returns the file's bytes.
ReadFile ==
    /\ pc = "Substituting" /\ phase = "range"
    /\ \E p \in pending :
        /\ fs[p].exists
        /\ cur' = p
        /\ buf' = fs[p].data
        /\ events' = Append(events, << "read", p >>)
    /\ phase' = "stat"
    /\ UNCHANGED << fs, cfgKind, plugins, pc, pending, info, idx, err, run,
                    fs0, plugins0, histSubst >>

\* Lines 130-132 and 46-48: afero.ReadFile fails (always when the file does not
\* exist); replaceImages returns the wrapped error and Scaffold returns it.
ReadFileFails ==
    /\ pc = "Substituting" /\ phase = "range"
    /\ \E p \in pending :
        /\ cur' = p
        /\ err' = Errorf("error reading file for substitution", "",
                         PathError("open", p))
        /\ events' = Append(events, << "read", p >>)
    /\ pc' = "Failed"
    /\ UNCHANGED << fs, cfgKind, plugins, phase, pending, buf, info, idx, run,
                    fs0, plugins0, histSubst >>

\* Line 133: fs.FS.Stat returns the file's info.
Stat ==
    /\ pc = "Substituting" /\ phase = "stat"
    /\ info' = fs[cur].mode
    /\ idx' = 1
    /\ phase' = "subst"
    /\ events' = Append(events, << "stat", cur >>)
    /\ UNCHANGED << fs, cfgKind, plugins, pc, pending, cur, buf, err, run, fs0,
                    plugins0, histSubst >>

\* Lines 134-136 and 46-48: Stat fails.
StatFails ==
    /\ pc = "Substituting" /\ phase = "stat"
    /\ err' = Errorf("error reading file info for substitution", "",
                     PathError("stat", cur))
    /\ events' = Append(events, << "stat", cur >>)
    /\ pc' = "Failed"
    /\ UNCHANGED << fs, cfgKind, plugins, phase, pending, cur, buf, info, idx,
                    run, fs0, plugins0, histSubst >>

\* Lines 137-139: one iteration of the inner loop.
ApplySubst ==
    /\ pc = "Substituting" /\ phase = "subst"
    /\ idx <= Len(imageSubstitutions[cur])
    /\ buf' = ReplaceAll(imageSubstitutions[cur][idx].fromTagRE, buf,
                         imageSubstitutions[cur][idx].toTag)
    /\ idx' = idx + 1
    /\ UNCHANGED << fs, cfgKind, plugins, pc, phase, pending, cur, info, err,
                    run, fs0, plugins0, events, histSubst >>

\* Line 140: the inner loop is over; afero.WriteFile writes b back.
WriteFile ==
    /\ pc = "Substituting" /\ phase = "subst"
    /\ idx > Len(imageSubstitutions[cur])
    /\ fs' = FsWriteFile(fs, cur, buf, info)
    /\ events' = Append(events, << "write", cur >>)
    /\ pending' = pending \ {cur}
    /\ phase' = "range"
    /\ UNCHANGED << cfgKind, plugins, pc, cur, buf, info, idx, err, run, fs0,
                    plugins0, histSubst >>

\* Lines 140-142 and 46-48: afero.WriteFile fails; its error is returned as it
\* is.
WriteFileFails ==
    /\ pc = "Substituting" /\ phase = "subst"
    /\ idx > Len(imageSubstitutions[cur])
    /\ \E truncated \in BOOLEAN :
        /\ fs' = FsWriteFileFailed(fs, cur, truncated)
        /\ err' = Errorf("", "",
                         PathError(IF truncated THEN "write" ELSE "open", cur))
    /\ events' = Append(events, << "write", cur >>)
    /\ pc' = "Failed"
    /\ UNCHANGED << cfgKind, plugins, phase, pending, cur, buf, info, idx, run,
                    fs0, plugins0, histSubst >>

\* Line 145 and 46-48: the range loop is over; replaceImages returns nil.
ReplaceImagesReturns ==
    /\ pc = "Substituting" /\ phase = "range" /\ pending = {}
    /\ pc' = "RecordingMarker"
    /\ UNCHANGED << fs, cfgKind, plugins, phase, pending, cur, buf, info, idx,
                    err, run, fs0, plugins0, events, histSubst >>

\* Lines 50-55: EncodePluginConfig(pluginKey, Config{}) and Scaffold's return.
EncodePluginConfig ==
    /\ pc = "RecordingMarker"
    /\ plugins' = EncodePluginConfigStore(cfgKind, plugins, pluginKey)
    /\ err' = ScaffoldEncodeResult(EncodePluginConfigErr(cfgKind))
    /\ pc' = IF err' = Nil THEN "Done" ELSE "Failed"
    /\ events' = Append(events, << "encode", pluginKey >>)
    /\ UNCHANGED << fs, cfgKind, phase, pending, cur, buf, info, idx, run, fs0,
                    plugins0, histSubst >>

\* Scaffold is invoked again on the same project (`init` is re-run).
ScaffoldAgain ==
    /\ pc \in {"Done", "Failed"}
    /\ run < MaxRuns
    /\ run' = run + 1
    /\ pc' = "Substituting"
    /\ phase' = "range"
    /\ pending' = TablePaths
    /\ cur' = ""
    /\ buf' = << >>
    /\ info' = "-"
    /\ idx' = 1
    /\ err' = Nil
    /\ fs0' = fs
    /\ plugins0' = plugins
    /\ events' = << >>
    /\ UNCHANGED << fs, cfgKind, plugins, histSubst >>

Next ==
    \/ ReadFile
    \/ ReadFileFails
    \/ Stat
    \/ StatFails
    \/ ApplySubst
    \/ WriteFile
    \/ WriteFileFails
    \/ ReplaceImagesReturns
    \/ EncodePluginConfig
    \/ ScaffoldAgain

Spec == Init /\ [][Next]_vars

(***************************************************************************)
(* The substitution alone: replaceImages has read one file of the table    *)
(* (any text made of at most MaxChunks pieces of that file's vocabulary)   *)
(* and runs its inner loop over the bytes; WriteBack is the write of the   *)
(* result and the read of the same bytes by the next invocation.           *)
(***************************************************************************)
Vocab ==
    (ManifestPath :> {TxtImageKey, TxtQuote, TxtNewline, TxtProxyRef,
                      KubeRbacProxyPat, KubeRbacProxyTo \o ocpProductVersion})
    @@ (DockerfilePath :> {TxtFrom, TxtAsBuilder, TxtNewline, TxtGolang119,
                           TxtGolang121, TxtAnsibleRef, TxtHelmRef,
                           TxtDistrolessRef, TxtUbiMicroRef})
    @@ (GoModPath :> {TxtGo119, TxtGo112, TxtGo12, TxtGo120, TxtGo121, TxtGo130,
                      TxtPatch, TxtNewline, TxtRequire, TxtXNet010, TxtXNet023,
                      TxtIndirect})

RECURSIVE Concat(_)
Concat(ss) == IF ss = << >> THEN << >> ELSE Head(ss) \o Concat(Tail(ss))

Inputs(p) ==
    { Concat(cs) : cs \in UNION { [1..n -> Vocab[p]] : n \in 0..MaxChunks } }

InitSubst ==
    /\ cur \in TablePaths
    /\ input \in Inputs(cur)
    /\ buf = input
    /\ fs = [p \in Paths |-> IF p = cur THEN File(input, "0644") ELSE Absent]
    /\ cfgKind = "supported"
    /\ plugins = << >>
    /\ pc = "Substituting"
    /\ phase = "subst"
    /\ pending = {cur}
    /\ info = "0644"
    /\ idx = 1
    /\ err = Nil
    /\ run = 1
    /\ fs0 = fs
    /\ plugins0 = plugins
    /\ events = << << "read", cur >>, << "stat", cur >> >>
    /\ pass = 1
    /\ first = << >>

WriteBack ==
    /\ pc = "Substituting" /\ phase = "subst"
    /\ idx > Len(imageSubstitutions[cur])
    /\ pass < MaxRuns
    /\ fs' = FsWriteFile(fs, cur, buf, info)
    /\ first' = IF pass = 1 THEN buf ELSE first
    /\ pass' = pass + 1
    /\ idx' = 1
    /\ UNCHANGED << cfgKind, plugins, pc, phase, pending, cur, buf, info, err,
                    run, fs0, plugins0, events, input >>

NextSubst ==
    \/ ApplySubst
    \/ WriteBack

SpecSubst == InitSubst /\ [][NextSubst]_vars

(***************************************************************************)
(* Reading texts: space/newline-delimited tokens, lines, version numbers.  *)
(***************************************************************************)
\* The pieces of s between the bytes of seps (empty pieces kept).
RECURSIVE Split(_, _)
Split(s, seps) ==
    LET at == { k \in 1..Len(s) : s[k] \in seps }
    IN  IF at = {} THEN << s >>
        ELSE << SubSeq(s, 1, Least(at) - 1) >>
             \o Split(SubSeq(s, Least(at) + 1, Len(s)), seps)

Tokens(s) == Split(s, {" ", "\n"})
Lines(s) == Split(s, {"\n"})
IsSep(c) == c \in {" ", "\n"}
Separators(s) == SelectSeq(s, IsSep)

Digits == {"0", "1", "2", "3", "4", "5", "6", "7", "8", "9"}
DigitValue(c) ==
    CASE c = "0" -> 0 [] c = "1" -> 1 [] c = "2" -> 2 [] c = "3" -> 3
      [] c = "4" -> 4 [] c = "5" -> 5 [] c = "6" -> 6 [] c = "7" -> 7
      [] c = "8" -> 8 [] c = "9" -> 9

\* The decimal number whose digits are the sequence ds.
RECURSIVE Decimal(_)
Decimal(ds) ==
    IF ds = << >> THEN 0
    ELSE 10 * Decimal(SubSeq(ds, 1, Len(ds) - 1)) + DigitValue(ds[Len(ds)])

\* The length of the run of digits of s that starts at i.
DigitRun(s, i) ==
    Least({ n \in 0..(Len(s) - i + 1) :
              i + n > Len(s) \/ s[i + n] \notin Digits })

\* Whether line is a go directive  go 1.N  or  go 1.N.P , and its N.
GoDirectivePrefix == << "g", "o", " ", "1", "." >>
IsGoDirective(line) ==
    /\ Len(line) > 5
    /\ SubSeq(line, 1, 5) = GoDirectivePrefix
    /\ LET n == DigitRun(line, 6)
       IN  /\ n > 0
           /\ \/ 5 + n = Len(line)
              \/ /\ 5 + n + 1 < Len(line)
                 /\ line[5 + n + 1] = "."
                 /\ 5 + n + 1 + DigitRun(line, 5 + n + 2) = Len(line)
GoDirectiveMinor(line) == Decimal(SubSeq(line, 6, 5 + DigitRun(line, 6)))

\* The inner loop of the current pass is over: buf is what is written.
PassDone == idx > Len(imageSubstitutions[cur])

(***************************************************************************)
(* Claims about the substitution (checked under SpecSubst).                *)
(***************************************************************************)

\* C1: Idempotence.  For every content of a table file, a second run of the
\* rules over the result of the first run leaves the bytes as the first run
\* left them; and the rules of a file rewrite the replacement text of each
\* of its rules to itself (or do not match it).
C1_Idempotent ==
    /\ (pass >= 2 /\ PassDone) => buf = first
    /\ (pass = 1 /\ idx = 1) =>
          \A r \in 1..Len(imageSubstitutions[cur]) :
              ApplyFrom(imageSubstitutions[cur],
                        imageSubstitutions[cur][r].toTag, 1)
                  = imageSubstitutions[cur][r].toTag

\* A second run is over, on a file the first run changed and in which a rule
\* still matches (its own replacement).
C1_Witness ==
    /\ pass = 2 /\ PassDone
    /\ first # input
    /\ \E r \in 1..Len(imageSubstitutions[cur]) :
          Matches(imageSubstitutions[cur][r].fromTagRE, first)

\* The rules of a file that rewrite an upstream image reference to its
\* downstream name:tag (lines 66-86): kube-rbac-proxy; ansible-operator,
\* helm-operator and distroless/static.
UpstreamRules(p) ==
    IF p = ManifestPath THEN {1}
    ELSE IF p = DockerfilePath THEN {1, 2, 3}
    ELSE {}

\* Rule r of file p matches tok at its leftmost, and no other rule of p
\* matches tok further left.
LeftmostIn(p, r, tok) ==
    LET rules == imageSubstitutions[p]
        m == NextMatch(rules[r].fromTagRE, tok, 1)
    IN  /\ m # 0
        /\ \A q \in (1..Len(rules)) \ {r} :
              LET n == NextMatch(rules[q].fromTagRE, tok, 1)
              IN  n = 0 \/ n > m

C3_GoVersionFloor ==
    (cur = GoModPath /\ pass = 1 /\ PassDone) =>
        LET rules == imageSubstitutions[cur]
            before == Lines(input)
            after == Lines(buf)
        IN  /\ Len(after) = Len(before)
            /\ \A k \in 1..Len(before) :
                  IsGoDirective(before[k]) =>
                      IF GoDirectiveMinor(before[k]) < 20
                      THEN after[k] = GoVersionTo
                      ELSE after[k] = before[k]
            /\ \A i \in 1..Len(buf) :
                  MatchesAt(rules[1].fromTagRE, buf, i) =>
                      SubSeq(buf, i, MatchEnd(rules[1].fromTagRE, buf, i))
                          = XNetTo

(***************************************************************************)
(* Reading a run (checked under Spec).                                     *)
(***************************************************************************)
\* How many times the invocation made the call << op, path >>.
Count(op, path) ==
    Cardinality({ i \in 1..Len(events) : events[i] = << op, path >> })

\* The invocation's last call was EncodePluginConfig.
Encoded == events # << >> /\ events[Len(events)] = << "encode", pluginKey >>

\* The table files this invocation has written back, and those the range
\* loop has not reached.
Processed == TablePaths \ pending
Unreached == pending \ {cur}

ReadContext == "error reading file for substitution"
StatContext == "error reading file info for substitution"
\* Scaffold returned an error of replaceImages (not one of the marker).
SubstitutionFailed == pc = "Failed" /\ err.key = ""

Entries(key) == Cardinality({ i \in 1..Len(plugins) : plugins[i] = key })

\* C4: Frame.  In every run, finished or failed, no file is created or
\* removed, every file keeps its mode bits, and only files whose path is a
\* key of the table change their bytes.
C4_Frame ==
    \A p \in Paths :
        /\ fs[p].exists = fs0[p].exists
        /\ fs[p].mode = fs0[p].mode
        /\ p \notin TablePaths => fs[p].data = fs0[p].data

\* A run has rewritten a table file whose mode is not the default one, and a
\* table file was absent.
C4_Witness ==
    /\ \E p \in TablePaths :
          fs[p].exists /\ fs[p].data # fs0[p].data /\ fs[p].mode = "0600"
    /\ \E p \in TablePaths : ~fs[p].exists
    /\ pc = "Failed"

\* C5: Marker-persistence error handling.  Once substitution succeeded,
\* Scaffold returns success when EncodePluginConfig reports no error or the
\* unsupported-field error, and otherwise a failure that names the plugin
\* key; there is no other outcome.
C5_MarkerErrors ==
    Encoded =>
        /\ cfgKind \in {"supported", "unsupported"} => pc = "Done" /\ err = Nil
        /\ cfgKind = "failing" =>
              /\ pc = "Failed"
              /\ err.wrap = "error writing plugin config for"
              /\ err.key = pluginKey
              /\ err.cause = EncodeError

\* Scaffold returned success although EncodePluginConfig reported the
\* unsupported-field error.
C5_Witness == Encoded /\ cfgKind = "unsupported" /\ pc = "Done"

\* The original statement of C6: after every successful run the store holds
\* an entry for the plugin key.
C6_Original == pc = "Done" => HasKey(plugins, pluginKey)

\* C6 (amended): after every successful run on a configuration that supports
\* plugin configuration the store holds exactly one entry for the plugin
\* key (after a successful run on one that does not, none); a run that finds
\* the entry already there does not fail at the marker and adds no second
\* entry.
C6_MarkerPersisted ==
    /\ (pc = "Done" /\ cfgKind # "unsupported") => Entries(pluginKey) = 1
    /\ (pc = "Done" /\ cfgKind = "unsupported") => Entries(pluginKey) = 0
    /\ (Encoded /\ HasKey(plugins0, pluginKey)) =>
          pc = "Done" /\ Entries(pluginKey) = 1

\* A second run succeeded on a project whose store already held the entry.
C6_Witness ==
    /\ run = 2 /\ pc = "Done" /\ Encoded
    /\ HasKey(plugins0, pluginKey)
    /\ Entries(pluginKey) = 1

\* C7: Failure on a missing or unreadable target.  A run over a project in
\* which a table file is absent never succeeds, and when the range loop
\* reaches the absent file the step returns the read failure naming that
\* path.  After a read or a stat failure the error names the failing path,
\* the failing file is as it was (not written, not created), the files
\* processed before hold their substituted content and the files not yet
\* reached are as they were.
C7_ReadFailure ==
    /\ \A p \in TablePaths :
          ~fs0[p].exists =>
              /\ pc \notin {"RecordingMarker", "Done"}
              /\ Count("read", p) > 0 =>
                    /\ pc = "Failed"
                    /\ err.wrap = ReadContext
                    /\ err.cause = PathError("open", p)
    /\ (pc = "Failed" /\ err.wrap \in {ReadContext, StatContext}) =>
          /\ err.cause.path = cur
          /\ err.cause.op = (IF err.wrap = ReadContext THEN "open" ELSE "stat")
          /\ Count("write", cur) = 0
          /\ fs[cur] = fs0[cur]
          /\ \A p \in Processed :
                /\ fs[p].data = ApplyFrom(imageSubstitutions[p], fs0[p].data, 1)
                /\ Count("write", p) = 1
          /\ \A p \in Unreached : fs[p] = fs0[p] /\ Count("read", p) = 0

\* The step failed reading an absent file after it had rewritten another
\* table file and before it reached the third.
C7_Witness ==
    /\ pc = "Failed" /\ err.wrap = ReadContext
    /\ ~fs0[cur].exists
    /\ \E p \in Processed : fs[p].data # fs0[p].data
    /\ Unreached # {}

\* The most calls one invocation makes: read, stat and write of every table
\* file, then EncodePluginConfig.
MostCalls == 3 * Cardinality(TablePaths) + 1

\* C8: Scaffold goes Substituting -> RecordingMarker -> Done, failing from
\* either state.  A finished run has requested EncodePluginConfig exactly
\* once if every table file was read, stat-ed and written, and never if
\* substitution failed; the request is the run's last call, made after the
\* last write; no file is read, stat-ed or written twice; and a run that is
\* not over can always take a step, of which there are boundedly many.
C8_Sequence ==
    /\ pc \in {"Substituting", "RecordingMarker", "Done", "Failed"}
    /\ Count("encode", pluginKey) <= 1
    /\ Count("encode", pluginKey) = 1 =>
          /\ Encoded
          /\ pending = {}
          /\ \A p \in TablePaths :
                /\ Count("read", p) = 1
                /\ Count("stat", p) = 1
                /\ Count("write", p) = 1
    /\ pc \in {"Done", "Failed"} =>
          (Count("encode", pluginKey) = 1 <=> pending = {})
    /\ SubstitutionFailed => Count("encode", pluginKey) = 0
    /\ pc = "RecordingMarker" => pending = {} /\ Count("encode", pluginKey) = 0
    /\ pc = "Done" => Encoded
    /\ \A p \in TablePaths :
          /\ Count("read", p) <= 1
          /\ Count("stat", p) <= 1
          /\ Count("write", p) <= 1
          /\ Count("write", p) <= Count("stat", p)
          /\ Count("stat", p) <= Count("read", p)
    /\ Len(events) <= MostCalls
    /\ pc \in {"Substituting", "RecordingMarker"} =>
          ENABLED (ReadFile \/ ReadFileFails \/ Stat \/ StatFails \/ ApplySubst
                   \/ WriteFile \/ WriteFileFails \/ ReplaceImagesReturns
                   \/ EncodePluginConfig)

\* A run ended in Done after reading, stat-ing and writing the three table
\* files and requesting EncodePluginConfig.
C8_Witness == pc = "Done" /\ Len(events) = MostCalls /\ Encoded

\* C9: every failure of replaceImages (read, stat or write) reaches the
\* caller of Scaffold wrapped with context saying that it occurred during
\* the substitution, in addition to the underlying cause.
C9_FailuresWrapped ==
    SubstitutionFailed =>
        /\ err.wrap \in {ReadContext, StatContext}
        /\ err.cause.kind = "PathError"

\* The builder image version of a Dockerfile ( golang:1.M ) and the language
\* version of a go.mod ( go 1.N ); -1 when the file declares none.
BuilderPrefix == GolangPat \o << "1", "." >>
BuilderMinor(s) ==
    LET at == { k \in 1..Len(s) :
                  /\ k + Len(BuilderPrefix) <= Len(s)
                  /\ SubSeq(s, k, k + Len(BuilderPrefix) - 1) = BuilderPrefix
                  /\ s[k + Len(BuilderPrefix)] \in Digits }
    IN  IF at = {} THEN -1
        ELSE LET d == Least(at) + Len(BuilderPrefix)
             IN  Decimal(SubSeq(s, d, d + DigitRun(s, d) - 1))
GoModMinor(s) ==
    LET ls == Lines(s)
        at == { k \in 1..Len(ls) : IsGoDirective(ls[k]) }
    IN  IF at = {} THEN -1 ELSE GoDirectiveMinor(ls[Least(at)])

Max(a, b) == IF a >= b THEN a ELSE b

\* C10: the step never lowers a Go version and keeps the two files
\* consistent.  For a Go project with builder image golang:1.M and go.mod
\* go 1.N, after a successful substitution the builder image version is at
\* least max(1.20, 1.M) and not lower than the version go.mod then declares.
C10_VersionFloor ==
    ( /\ pc \in {"RecordingMarker", "Done"}
      /\ BuilderMinor(fs0[DockerfilePath].data) >= 0
      /\ GoModMinor(fs0[GoModPath].data) >= 0 ) =>
        /\ BuilderMinor(fs[DockerfilePath].data)
              >= Max(20, BuilderMinor(fs0[DockerfilePath].data))
        /\ BuilderMinor(fs[DockerfilePath].data)
              >= GoModMinor(fs[GoModPath].data)

=============================================================================
